---- MODULE Spec2Model ----
(***************************************************************************)
(* Crypto portfolio simulator (src/app.py).                                *)
(*                                                                         *)
(* The Streamlit script is re-executed from top to bottom on every user    *)
(* interaction.  One execution (action Rerun) calls load_crypto_data()     *)
(* (lines 31-57, memoised by st.cache_data for the life of the server      *)
(* process), reads the sidebar widgets (lines 62-75) and computes the      *)
(* portfolio (lines 77-98).  Executions are short: the date, the external  *)
(* source and the process change between them, not during them.            *)
(*                                                                         *)
(* Spec is the price store and the sessions around it, under a few widget  *)
(* settings.  SpecAgg is the aggregator on its own: every bounded table    *)
(* the store can return, under every bounded widget setting.               *)
(*                                                                         *)
(* Representation.                                                         *)
(*  - A calendar date is an integer.  One unit stands for a quarter of a   *)
(*    year, so that the three look-back windows of days_lookup (365, 180,  *)
(*    90 days) become 4, 2 and 1 units and an entire window fits into the  *)
(*    explored calendar.                                                   *)
(*  - A float is a pair <<n, d>> with d >= 0 in lowest terms: the exact    *)
(*    rational n/d, <<1, 0>> for inf and <<0, 0>> for NaN.  Rounding is    *)
(*    not modelled.                                                        *)
(*  - A DataFrame is the sequence of its rows, a row being a record with   *)
(*    the field Date and one field per column.  The CSV file is a header   *)
(*    plus a sequence of lines, a line being the tuple of its cells.       *)
(***************************************************************************)
EXTENDS Integers, Sequences, FiniteSets, TLC

\* ------------------------------------------------------------ bounds ----
MaxDay == 2          \* last calendar date explored
MaxProcs == 2        \* server processes started one after the other
MaxFail == 1         \* fetches that raise, per server process
MaxSelected == 2     \* coins selected at once, where the aggregator is checked on its own
MaxRows == 2         \* rows of a table, where the aggregator is checked on its own

\* ------------------------------------------------------------ config ----
TICKERS == [BTC |-> "BTC-USD", ETH |-> "ETH-USD", XRP |-> "XRP-USD",
            SOL |-> "SOL-USD", WLD |-> "WLD-USD"]

Coins == DOMAIN TICKERS

Symbols == {TICKERS[c] : c \in Coins}

days_lookup == ("1Y" :> 4) @@ ("6M" :> 2) @@ ("3M" :> 1)

Days == 0..MaxDay

\* ------------------------------------------------------------ floats ----
NaN == <<0, 0>>

Inf == <<1, 0>>

RECURSIVE Gcd(_, _)
Gcd(a, b) == IF b = 0 THEN a ELSE Gcd(b, a % b)

Abs(n) == IF n < 0 THEN -n ELSE n

Norm(n, d) ==
    IF d = 0 THEN (IF n = 0 THEN NaN ELSE Inf)
    ELSE LET g == Gcd(Abs(n), d) IN <<n \div g, d \div g>>

F(n) == <<n, 1>>

isna(x) == x = NaN

Mul(x, y) == Norm(x[1] * y[1], x[2] * y[2])

Div(x, y) == Norm(x[1] * y[2], x[2] * y[1])

Add(x, y) ==
    IF x[2] = 0 /\ y[2] = 0 THEN (IF x = Inf /\ y = Inf THEN Inf ELSE NaN)
    ELSE Norm(x[1] * y[2] + y[1] * x[2], x[2] * y[2])

Sub(x, y) ==
    IF y[2] = 0 THEN NaN ELSE Add(x, <<-y[1], y[2]>>)

\* ---------------------------------------------------- external source ----
\* What the provider can hold for one date: a close per ticker, NaN where it
\* has none.  NoQuote is a date the provider has nothing for.
NoQuote == [s \in Symbols |-> NaN]

QuoteFlat == [s \in Symbols |-> F(1)]

QuoteUp == [s \in Symbols |-> IF s = "BTC-USD" THEN F(2) ELSE F(1)]

QuoteDown == [s \in Symbols |-> IF s = "ETH-USD" THEN F(1) ELSE F(2)]

QuotePartial == [s \in Symbols |-> IF s = "WLD-USD" THEN NaN ELSE F(1)]

QuoteZero == [s \in Symbols |-> IF s = "XRP-USD" THEN F(0) ELSE F(1)]

Quotes == {QuoteUp, QuoteDown, QuotePartial}

\* yf.download(...)["Close"] for the dates from..to-1: one row per date the
\* provider has a close for, ascending, the columns named by ticker.
RECURSIVE download(_, _, _)
download(mkt, from, to) ==
    IF from >= to THEN <<>>
    ELSE IF from \in DOMAIN mkt /\ \E s \in Symbols : ~isna(mkt[from][s])
         THEN <<[Date |-> from, Close |-> mkt[from]]>> \o download(mkt, from + 1, to)
         ELSE download(mkt, from + 1, to)

\* .dropna().reset_index() and .rename(columns={v: k ...}): the rows without
\* a missing cell, Date a column, the columns named by coin.
dropna_rename(rows) ==
    LET keep == SelectSeq(rows, LAMBDA r : \A s \in Symbols : ~isna(r.Close[s]))
    IN [i \in 1..Len(keep) |->
           [Date |-> keep[i].Date, Close |-> [c \in Coins |-> keep[i].Close[TICKERS[c]]]]]

\* ---------------------------------------------------------- cache file ----
Columns == <<"BTC", "ETH", "SOL", "WLD", "XRP">>

NoFile == [exists |-> FALSE, header |-> <<>>, lines |-> <<>>]

\* df.to_csv(DATA_PATH, index=False)
to_csv(df) ==
    [exists |-> TRUE,
     header |-> <<"Date">> \o Columns,
     lines  |-> [i \in 1..Len(df) |->
                   <<F(df[i].Date)>> \o [j \in 1..Len(Columns) |-> df[i].Close[Columns[j]]]]]

\* pd.read_csv(DATA_PATH, parse_dates=["Date"])
read_csv(f) ==
    [i \in 1..Len(f.lines) |->
        [Date  |-> f.lines[i][1][1],
         Close |-> [c \in Coins |->
                      LET j == CHOOSE k \in 2..Len(f.header) : f.header[k] = c
                      IN f.lines[i][j]]]]

\* df["Date"].max().date(); the table is never empty, as the source holds a
\* complete row within every range the first fetch asks for.
MaxDate(df) ==
    CHOOSE d \in {df[i].Date : i \in 1..Len(df)} : \A i \in 1..Len(df) : df[i].Date <= d

\* --------------------------------------------------------- Price Store ----
\* The body of load_crypto_data yields what it returns or that it raised, the
\* file it leaves, and which I/O it performed.  fetch_ok is whether
\* yf.download returns (TRUE) or raises (FALSE).

\* Line 40.  (is_fresh_strict: the comparison off by one, a faulty variant.)
is_fresh_strict(last_date, now) == last_date > now

is_fresh(last_date, now) == last_date >= now

\* Lines 43-45: start=last_date, end=today.  (incremental_through_today: the
\* end inclusive, a faulty variant.)
incremental_through_today(mkt, last_date, now) ==
    dropna_rename(download(mkt, last_date, now + 1))

incremental(mkt, last_date, now) == dropna_rename(download(mkt, last_date, now))

\* Line 47.  (concat_new_only: the old rows dropped, a faulty variant.)
concat_new_only(df, new_data) == new_data

concat(df, new_data) == df \o new_data

\* yf.download raised (line 43 or 51): nothing after it has run.
\* (fetch_raised_file_lost: the file gone by then, a faulty variant.)
fetch_raised_file_lost(f, branch) ==
    [raised |-> TRUE, df |-> <<>>, file |-> NoFile, branch |-> branch,
     fetched |-> TRUE, wrote |-> FALSE]

fetch_raised(f, branch) ==
    [raised |-> TRUE, df |-> <<>>, file |-> f, branch |-> branch,
     fetched |-> TRUE, wrote |-> FALSE]

\* Lines 35-49.
load_refresh(f, mkt, now, fetch_ok) ==
    LET df        == read_csv(f)
        last_date == MaxDate(df)
        merged    == concat(df, incremental(mkt, last_date, now))
    IN IF is_fresh(last_date, now)
       THEN [raised |-> FALSE, df |-> df, file |-> f, branch |-> "fresh",
             fetched |-> FALSE, wrote |-> FALSE]
       ELSE IF ~fetch_ok
       THEN fetch_raised(f, "refresh")
       ELSE [raised |-> FALSE, df |-> merged, file |-> to_csv(merged),
             branch |-> "refresh", fetched |-> TRUE, wrote |-> TRUE]

\* Lines 51-55: period="1y" reaches from a year back to the current date.
load_initial(f, mkt, now, fetch_ok) ==
    LET df == dropna_rename(download(mkt, now - days_lookup["1Y"], now + 1))
    IN IF ~fetch_ok
       THEN fetch_raised(f, "initial")
       ELSE [raised |-> FALSE, df |-> df, file |-> to_csv(df), branch |-> "initial",
             fetched |-> TRUE, wrote |-> TRUE]

load_crypto_data(f, mkt, now, fetch_ok) ==
    IF f.exists THEN load_refresh(f, mkt, now, fetch_ok)
    ELSE load_initial(f, mkt, now, fetch_ok)

\* @st.cache_data: a value returned earlier in this process is returned again
\* without running the body; an exception is not memoised.
\* (cached_load_body_always: no memo, a faulty variant.)
cached_load_body_always(m, f, mkt, now, fetch_ok) == load_crypto_data(f, mkt, now, fetch_ok)

cached_load(m, f, mkt, now, fetch_ok) ==
    IF m.set
    THEN [raised |-> FALSE, df |-> m.df, file |-> f, branch |-> "memo",
          fetched |-> FALSE, wrote |-> FALSE]
    ELSE load_crypto_data(f, mkt, now, fetch_ok)

\* --------------------------------------------------- Portfolio Aggregator ----
RECURSIVE SumOver(_, _)
SumOver(S, f) ==
    IF S = {} THEN F(0)
    ELSE LET c == CHOOSE x \in S : TRUE IN Add(SumOver(S \ {c}, f), f[c])

\* A slider position, counted in steps of 0.05, as the float it returns.
slider(steps) == Norm(steps, 20)

\* Timestamps are <<date, time of day>>; the rows of the table are at 00:00.
cutoff(now, tod, period) == <<now - days_lookup[period], tod>>

ts_ge(a, b) == a[1] > b[1] \/ (a[1] = b[1] /\ a[2] >= b[2])

window(table, now, tod, period) ==
    LET rows == SelectSeq(table, LAMBDA r : ts_ge(<<r.Date, 0>>, cutoff(now, tod, period)))
    IN SelectSeq(rows, LAMBDA r : \A c \in Coins : ~isna(r.Close[c]))

NoArgs == [tod |-> 0, investment |-> 0, period |-> "1Y", selected_coins |-> {}, raw |-> <<>>]

NoRun == [status |-> "none", args |-> NoArgs, weights |-> <<>>, dates |-> <<>>, g |-> <<>>,
          PortfolioValue |-> <<>>, final_value |-> NaN, growth |-> NaN]

\* Lines 70-75: the slider value of each selected coin and their sum.
raw_weights(a) == [c \in a.selected_coins |-> slider(a.raw[c])]

\* Line 77: the allocation is refused.  (refused_if_negative: a faulty variant.)
refused_if_negative(total_weight) == total_weight[1] < 0

refused(total_weight) == total_weight = F(0)

\* Line 82.
normalized(w0, total_weight) == [c \in DOMAIN w0 |-> Div(w0[c], total_weight)]

\* Lines 89-90: the prices of coin c over the first price of the window.
\* (growth_series_over_last: over the last price, a faulty variant.)
growth_series_over_last(df, c) ==
    [i \in 1..Len(df) |-> Div(df[i].Close[c], df[Len(df)].Close[c])]

growth_series(df, c) == [i \in 1..Len(df) |-> Div(df[i].Close[c], df[1].Close[c])]

\* Lines 93-94.
portfolio_value(g, weights, n, investment) ==
    [i \in 1..n |->
        Mul(SumOver(DOMAIN weights, [c \in DOMAIN weights |-> Mul(g[c][i], weights[c])]),
            F(investment))]

\* Lines 62-98 under the widget values a: the sidebar weights, the refusal, the
\* normalisation and the portfolio series.  a.raw maps each selected coin to
\* its slider position, a.tod is the time of day of the execution.  With an
\* empty window df[c].iloc[0] raises IndexError.
calc(table, now, a) ==
    LET w0           == raw_weights(a)
        total_weight == SumOver(a.selected_coins, w0)
        weights      == normalized(w0, total_weight)
        df           == window(table, now, a.tod, a.period)
        g            == [c \in a.selected_coins |-> growth_series(df, c)]
        PV           == portfolio_value(g, weights, Len(df), a.investment)
        final_value  == PV[Len(df)]
    IN IF refused(total_weight)
       THEN [NoRun EXCEPT !.status = "stopped", !.args = a, !.weights = w0]
       ELSE IF Len(df) = 0
       THEN [NoRun EXCEPT !.status = "IndexError", !.args = a, !.weights = weights]
       ELSE [status |-> "ok", args |-> a, weights |-> weights,
             dates |-> [i \in 1..Len(df) |-> df[i].Date], g |-> g,
             PortfolioValue |-> PV, final_value |-> final_value,
             growth |-> Mul(Sub(Div(final_value, F(a.investment)), F(1)), F(100))]

\* ---------------------------------------------------------------- state ----
VARIABLES
    today,      \* the calendar date
    market,     \* what the external source holds, by date
    file,       \* the file at DATA_PATH
    memo,       \* the st.cache_data entry of load_crypto_data in this process
    data,       \* what the latest call of load_crypto_data returned (line 57);
                \* forgotten once the date or the source has changed
    run,        \* what the execution under way computed (lines 62-98)
    io,         \* the load_crypto_data call of the execution under way: the branch
                \* taken, the I/O done, the rows of the file before it, and
                \* whether data held a table before it
    count,      \* per process: bodies of load_crypto_data run, fetches, writes
    procs       \* server processes started so far

vars == <<today, market, file, memo, data, run, io, count, procs>>

NoMemo == [set |-> FALSE, df |-> <<>>]

NoData == [ok |-> FALSE, df |-> <<>>]

NoIo == [branch |-> "none", raised |-> FALSE, fetched |-> FALSE, wrote |-> FALSE,
         rows |-> 0, repeat |-> FALSE]

NoCount == [bodies |-> 0, fetches |-> 0, writes |-> 0]

Periods == DOMAIN days_lookup

\* Widget values (lines 62-75).  Settings are the ones tried while the store
\* is exercised: the defaults of the widgets, every timeframe, and the
\* selections and slider positions that decide the refusal.
DefaultCoins == {"BTC", "ETH", "XRP"}

Settings ==
    {[tod |-> t, investment |-> 1000, period |-> p, selected_coins |-> DefaultCoins,
      raw |-> [c \in DefaultCoins |-> 4]] : t \in {0, 1}, p \in Periods}
    \cup {[tod |-> 0, investment |-> 1000, period |-> "1Y", selected_coins |-> sel,
           raw |-> [c \in sel |-> 0]] : sel \in {{}, DefaultCoins}}

\* AllSettings are the ones the aggregator is checked for on its own: the
\* minimum and the default of the investment, and the ends and the default
\* of each slider, over the selections of at most MaxSelected default coins.
InvestmentChoices == {100, 1000}

SliderChoices == {0, 4, 20}

Selections == {S \in SUBSET DefaultCoins : Cardinality(S) <= MaxSelected}

AllSettings ==
    UNION {{[tod |-> t, investment |-> inv, period |-> p, selected_coins |-> sel,
             raw |-> w] :
               t \in {0, 1}, inv \in InvestmentChoices, p \in Periods,
               w \in [sel -> SliderChoices]} : sel \in Selections}

\* The tables load_crypto_data can return: complete rows, the dates ascending,
\* a date repeated where a refresh fetched it again.  QuoteZero gives the
\* rows in which the source reports a close of zero.
TableRows ==
    {[Date |-> d, Close |-> [c \in Coins |-> q[TICKERS[c]]]] :
        d \in Days, q \in {QuoteUp, QuoteZero}}

Tables ==
    UNION {{t \in [1..n -> TableRows] : \A i \in 1..(n - 1) : t[i].Date <= t[i + 1].Date} :
             n \in 1..MaxRows}

\* The cache is absent, or was written by an execution on date 0.
Init ==
    /\ today = 1
    /\ market = [d \in Days |-> IF d = 0 THEN QuoteFlat ELSE NoQuote]
    /\ file \in {NoFile, load_initial(NoFile, market, 0, TRUE).file}
    /\ memo = NoMemo
    /\ data = NoData
    /\ run = NoRun
    /\ io = NoIo
    /\ count = NoCount
    /\ procs = 1

\* One execution of the script (lines 57-98) under the widget values a.
\* yf.download can raise only where it is called.
Execute(a, fetch_ok) ==
    \E r \in {cached_load(memo, file, market, today, fetch_ok)} :
      /\ fetch_ok \/ (r.fetched /\ count.fetches - count.writes < MaxFail)
      /\ file' = r.file
      /\ memo' = IF r.raised THEN memo ELSE [set |-> TRUE, df |-> r.df]
      /\ data' = [ok |-> ~r.raised, df |-> r.df]
      /\ io' = [branch |-> r.branch, raised |-> r.raised,
                fetched |-> r.fetched, wrote |-> r.wrote,
                rows |-> Len(file.lines), repeat |-> data.ok]
      /\ count' = [bodies  |-> count.bodies + (IF r.branch = "memo" THEN 0 ELSE 1),
                   fetches |-> count.fetches + (IF r.fetched THEN 1 ELSE 0),
                   writes  |-> count.writes + (IF r.wrote THEN 1 ELSE 0)]
      /\ run' = IF r.raised THEN [NoRun EXCEPT !.status = "raised", !.args = a]
                ELSE calc(r.df, today, a)
      /\ UNCHANGED <<today, market, procs>>

Rerun ==
    /\ run.status = "none"
    /\ \E a \in Settings, fetch_ok \in BOOLEAN : Execute(a, fetch_ok)

\* The execution ends: its variables are gone, the process waits for the
\* next interaction.
Finish ==
    /\ run.status # "none"
    /\ run' = NoRun
    /\ io' = NoIo
    /\ UNCHANGED <<today, market, file, memo, data, count, procs>>

\* The server process ends and a new one starts: the memo is gone.
Restart ==
    /\ run.status = "none"
    /\ procs < MaxProcs
    /\ procs' = procs + 1
    /\ memo' = NoMemo
    /\ count' = NoCount
    /\ UNCHANGED <<today, market, file, data, run, io>>

NextDay ==
    /\ run.status = "none"
    /\ today < MaxDay
    /\ today' = today + 1
    /\ data' = NoData
    /\ UNCHANGED <<market, file, memo, run, io, count, procs>>

\* The external source publishes or revises the close of the current date.
Publish ==
    /\ run.status = "none"
    /\ \E q \in Quotes :
         /\ q # market[today]
         /\ market' = [market EXCEPT ![today] = q]
    /\ data' = NoData
    /\ UNCHANGED <<today, file, memo, run, io, count, procs>>

Next == Rerun \/ Finish \/ Restart \/ NextDay \/ Publish

Spec == Init /\ [][Next]_vars

\* ------------------------------------------- the aggregator on its own ----
\* A process in which load_crypto_data has returned the table t, on the
\* last date explored; every execution is served by the memo.
InitAgg ==
    /\ today = MaxDay
    /\ market = [d \in Days |-> NoQuote]
    /\ \E t \in Tables :
         /\ file = to_csv(t)
         /\ memo = [set |-> TRUE, df |-> t]
         /\ data = [ok |-> TRUE, df |-> t]
    /\ run = NoRun
    /\ io = NoIo
    /\ count = NoCount
    /\ procs = 1

Recompute ==
    /\ run.status = "none"
    /\ \E a \in AllSettings : Execute(a, TRUE)

NextAgg == Recompute \/ Finish

SpecAgg == InitAgg /\ [][NextAgg]_vars

\* =============================================================== claims ====
\* A step in which the script is executed, hence load_crypto_data called.
Called == run.status = "none" /\ run'.status # "none"

Dates(df) == [i \in 1..Len(df) |-> df[i].Date]

StrictlyIncreasing(seq) == \A i \in 1..(Len(seq) - 1) : seq[i] < seq[i + 1]

IsPrefix(s, t) == Len(s) <= Len(t) /\ \A i \in 1..Len(s) : t[i] = s[i]

\* The rows whose date an earlier row has too.
Duplicates(df) == {i \in 1..Len(df) : \E j \in 1..(i - 1) : df[j].Date = df[i].Date}

CachedTable == read_csv(file)

\* C1: a call of load on a date on which an earlier call returned a table,
\* the source unchanged in between, returns the same table and adds no
\* duplicate-date row to the cache; whether it is served by the memo or by a
\* new process.
C1_LoadIdempotent ==
    [][(Called /\ data.ok /\ data'.ok) =>
          /\ data'.df = data.df
          /\ Cardinality(Duplicates(read_csv(file'))) <= Cardinality(Duplicates(CachedTable))]_vars

\* C2: no step removes the cache or removes, reorders or rewrites a row of
\* it; rows are only appended, so its row count never decreases.
C2_AppendOnly ==
    [][file.exists =>
          /\ file'.exists
          /\ file'.header = file.header
          /\ IsPrefix(file.lines, file'.lines)]_vars

\* An incremental refresh has appended rows to the cache.
C2_Witness == io.branch = "refresh" /\ io.wrote /\ Len(file.lines) > io.rows /\ io.rows > 0

\* C3: a call of load whose fetch raises during an incremental refresh leaves
\* the cache file as it was, writes nothing, yields an error and no table,
\* and memoises nothing, so that a later call reads the same cache.
C3_FetchFailureKeepsCache ==
    [][(Called /\ file.exists /\ run'.status = "raised") =>
          /\ file' = file
          /\ ~io'.wrote
          /\ ~data'.ok
          /\ memo' = memo
          /\ ~memo'.set]_vars

\* The fetch of an incremental refresh has raised.
C3_Witness == run.status = "raised" /\ io.branch = "refresh" /\ file.exists /\ io.rows > 0

\* C4: the cache and the table load returns are strictly increasing by date.
C4_DatesStrictlyIncreasing ==
    /\ file.exists => StrictlyIncreasing(Dates(CachedTable))
    /\ data.ok => StrictlyIncreasing(Dates(data.df))

\* C5: the allocation is refused exactly when the raw weights of the selected
\* coins sum to zero; a refusal divides no weight and produces no series, no
\* final value and no growth, and is a stop, not an error.
RawTotal(a) == SumOver(a.selected_coins, [c \in a.selected_coins |-> F(a.raw[c])])

C5_InvalidAllocationRefused ==
    run.status \in {"stopped", "IndexError", "ok"} =>
        /\ run.status = "stopped" <=> RawTotal(run.args) = F(0)
        /\ run.status = "stopped" =>
              /\ run.weights = raw_weights(run.args)
              /\ run.dates = <<>> /\ run.g = <<>> /\ run.PortfolioValue = <<>>
              /\ run.final_value = NaN /\ run.growth = NaN

\* Coins are selected, all at weight zero, and the execution has stopped.
C5_Witness == run.status = "stopped" /\ Cardinality(run.args.selected_coins) >= 2

\* C6: with a valid allocation and an empty window the outcome is an
\* explicit EmptyWindow, never the first-row access.
C6_EmptyWindowGuarded ==
    (/\ data.ok
     /\ run.status \in {"IndexError", "ok", "EmptyWindow"}
     /\ Len(window(data.df, today, run.args.tod, run.args.period)) = 0)
        => run.status = "EmptyWindow"

\* C7: with a non-empty window, a positive total weight and non-zero first
\* prices of the selected coins, every growth series starts at 1, the
\* weights sum to 1 and the portfolio starts at the investment.
FirstRow == window(data.df, today, run.args.tod, run.args.period)[1]

C7_StartsAtInvestment ==
    (/\ run.status = "ok"
     /\ \A c \in run.args.selected_coins : FirstRow.Close[c] # F(0))
        => /\ \A c \in run.args.selected_coins : run.g[c][1] = F(1)
           /\ SumOver(run.args.selected_coins, run.weights) = F(1)
           /\ run.PortfolioValue[1] = F(run.args.investment)

\* Two coins at different weights over a window in which a price moves.
C7_Witness ==
    /\ run.status = "ok"
    /\ Len(run.dates) >= 2
    /\ \E c, d \in run.args.selected_coins : run.weights[c] # run.weights[d]
    /\ \A c \in run.args.selected_coins : FirstRow.Close[c] # F(0)
    /\ \E c \in run.args.selected_coins : run.g[c][2] # F(1)

\* C8: a call of load that finds a cache whose latest date is the current
\* date or later fetches nothing, writes nothing, leaves the file as it is
\* and returns the cached table.
C8_FreshCacheNoOp ==
    [][(Called /\ file.exists /\ MaxDate(CachedTable) >= today) =>
          /\ file' = file
          /\ ~io'.fetched /\ ~io'.wrote
          /\ count'.fetches = count.fetches /\ count'.writes = count.writes
          /\ data'.ok /\ data'.df = CachedTable]_vars

\* The body ran and took the fresh branch.
C8_Witness == io.branch = "fresh" /\ data.ok /\ MaxDate(data.df) >= today

\* C9 as stated: per process the body of load, the fetch and the write each
\* run at most once.
C9_AtMostOnce == count.bodies <= 1 /\ count.fetches <= 1 /\ count.writes <= 1

\* C9 amended: per process at most one body of load returns and at most one
\* write is made; once a call has returned, every later execution gets that
\* table from the memo and runs no body, no fetch and no write.
C9_MemoAfterReturn ==
    [][/\ count'.writes <= 1
       /\ count'.bodies - (count'.fetches - count'.writes) <= 1
       /\ (Called /\ memo.set) =>
             /\ io'.branch = "memo"
             /\ data'.ok /\ data'.df = memo.df
             /\ memo' = memo /\ file' = file /\ count' = count]_vars

\* An execution served by the memo, in a process whose first fetch raised.
C9_Witness == io.branch = "memo" /\ count.fetches >= 2 /\ run.status \in {"ok", "IndexError", "stopped"}

\* C10: a call of load that finds the cache stale fetches, appends only rows
\* dated from the latest cached date up to but not including the current
\* date, and leaves the cache stale, so a call in a new process on that date
\* fetches again.
C10_RefreshStaysStale ==
    [][(Called /\ ~memo.set /\ file.exists /\ MaxDate(CachedTable) < today) =>
          /\ io'.branch = "refresh" /\ io'.fetched
          /\ \A i \in (Len(file.lines) + 1)..Len(file'.lines) :
                /\ MaxDate(CachedTable) <= read_csv(file')[i].Date
                /\ read_csv(file')[i].Date < today
          /\ MaxDate(read_csv(file')) < today]_vars

\* A refresh has written, on a date on which an earlier call had returned.
C10_Witness == io.branch = "refresh" /\ io.wrote /\ io.repeat

====
